---- MODULE Spec2Model ----
(***************************************************************************)
(* histbook/hist.py: Fillable, Book and Hist.                              *)
(*                                                                         *)
(* A Hist is built from group, fixed and profile axes and an optional      *)
(* weight; its fill method runs the compiled instruction sequence over one  *)
(* batch (Fillable._fill), which stages the exported arrays in the         *)
(* histogram's destination slots, and Hist._postfill scatter-adds them     *)
(* into the content store.  A Book holds copies of histograms under keys   *)
(* and fills them all with one shared instruction sequence.                *)
(*                                                                         *)
(* Conventions of the model                                                *)
(*   - Python lists are sequences, so every 0-based index of the source    *)
(*     (slot j, member i, flat row, statistics column) is that index + 1.  *)
(*   - numpy.float64 values are integers plus the value NaN; FAdd and FMul *)
(*     propagate NaN as IEEE addition and multiplication do.               *)
(*   - A raised exception ends the call: the model records its name in     *)
(*     `raised` and keeps every in-place effect made before the raise.     *)
(*   - Indexing an array with a boolean array of another length raises     *)
(*     IndexError (numpy >= 1.13).                                         *)
(***************************************************************************)
EXTENDS Integers, Sequences, FiniteSets, TLC

\* ------------------------------------------------------------- bounds
\* Total number of events over all fill calls of one behaviour.
MaxEvents == 3
\* Total number of calls of one behaviour.
MaxCalls == 5
\* totbins of the fixed axis over column "x" and over column "z".
XBins == 2
ZBins == 3
\* A column value no fixed axis can represent: its event is masked.
OUT == 9

\* numpy.nan
NaN == -1

\* ------------------------------------------------------------- helpers
Min2(a, b) == IF a <= b THEN a ELSE b

Range(s) == {s[i] : i \in DOMAIN s}

FAdd(a, b) == IF a = NaN \/ b = NaN THEN NaN ELSE a + b

FMul(a, b) == IF a = NaN \/ b = NaN THEN NaN ELSE a * b

\* a[selection] for a same-length boolean selection: the selected entries, in order.
RECURSIVE Take(_, _)
Take(a, selection) ==
    IF a = <<>> THEN <<>>
    ELSE (IF Head(selection) THEN <<Head(a)>> ELSE <<>>) \o Take(Tail(a), Tail(selection))

\* An optional slot or argument value: Python's None, or a value.
None == [isNone |-> TRUE, val |-> <<>>]

Some(v) == [isNone |-> FALSE, val |-> v]

\* ------------------------------------------------------------- axes and goals
\* The columns a batch may carry, in sorted order.
Columns == <<"g", "k", "w", "x", "y", "z">>

Kinds == <<"id", "sq", "unique", "bin">>

KindIndex(k) == CHOOSE i \in DOMAIN Kinds : Kinds[i] = k

\* A goal: the value one destination slot needs.  Two goals over the same
\* expression are equal, whichever axis or histogram asked for them.
Goal(kind, col, n) == [kind |-> kind, col |-> col, n |-> n]

\* An axis definition handed to Hist(...).
FixedAxis(col, totbins) == [col |-> col, totbins |-> totbins]

HistDef(group, fixed, profile, weight) ==
    [group |-> group, fixed |-> fixed, profile |-> profile, weight |-> weight]

NoWeight == "None"

\* Hist.__init__, the calls of dest(...): one destination slot per goal, the
\* group axes first, then the fixed axes, then two per profile axis, then the
\* weight and the squared weight.
HistGoals(def) ==
    [i \in 1..Len(def.group) |-> Goal("unique", def.group[i], 0)]
    \o [i \in 1..Len(def.fixed) |-> Goal("bin", def.fixed[i].col, def.fixed[i].totbins)]
    \o [i \in 1..(2 * Len(def.profile)) |->
            Goal(IF i % 2 = 1 THEN "id" ELSE "sq", def.profile[(i + 1) \div 2], 0)]
    \o (IF def.weight = NoWeight THEN <<>>
        ELSE <<Goal("id", def.weight, 0), Goal("sq", def.weight, 0)>>)

\* self._lookup[goal]: the slots of the histogram that need this goal.
Lookup(def, goal) == {j \in DOMAIN HistGoals(def) : HistGoals(def)[j] = goal}

\* self._shape without its last entry: the bin count of each fixed axis.
FixedShape(def) == [i \in 1..Len(def.fixed) |-> def.fixed[i].totbins]

\* self._shape[-1]: the number of statistics kept per bin.
StatWidth(def) == 2 * Len(def.profile) + (IF def.weight = NoWeight THEN 1 ELSE 2)

RECURSIVE Product(_)
Product(s) == IF s = <<>> THEN 1 ELSE Head(s) * Product(Tail(s))

\* The number of rows of content.reshape((-1, self._shape[-1])).
Rows(def) == Product(FixedShape(def))

\* axis._sumwxindex and axis._sumwx2index of the p-th profile axis.
SumwxIndex(def, p) == 2 * (p - 1) + 1

Sumwx2Index(def, p) == 2 * (p - 1) + 2

\* self._sumwindex and self._sumw2index.
SumwIndex(def) == 2 * Len(def.profile) + 1

Sumw2Index(def) == 2 * Len(def.profile) + 2

\* ------------------------------------------------------------- arrays
\* The category values a group axis can produce, in sorted order.
Categories == <<"a", "b", "x", "y">>

\* numpy.unique(values, return_inverse=True): the sorted distinct values, and
\* for every event the position of its value among them.
Unique(values) ==
    LET present == {i \in DOMAIN Categories : Categories[i] \in Range(values)}
        rank(i) == Cardinality({h \in present : h <= i})
        uniques == [r \in 1..Cardinality(present) |->
                        Categories[CHOOSE i \in present : rank(i) = r]]
    IN [uniques |-> uniques,
        inverse |-> [e \in DOMAIN values |->
                        CHOOSE r \in DOMAIN uniques : uniques[r] = values[e]]]

\* The index array of a fixed axis of n bins: a numpy.ma masked array, whose
\* mask flags the events the axis cannot represent.
BinIndex(values, n) ==
    [data |-> [e \in DOMAIN values |-> IF values[e] \in 0..(n - 1) THEN values[e] ELSE 0],
     mask |-> [e \in DOMAIN values |-> values[e] \notin 0..(n - 1)]]

\* histbook.calc.calculate: the value of a goal's expression over its column.
Calculate(goal, column) ==
    CASE goal.kind = "id" -> column
      [] goal.kind = "sq" -> [e \in DOMAIN column |-> FMul(column[e], column[e])]
      [] goal.kind = "unique" -> Unique(column)
      [] goal.kind = "bin" -> BinIndex(column, goal.n)

\* indexes.compressed(): the data of the unmasked entries.
Compressed(indexes) == Take(indexes.data, [e \in DOMAIN indexes.mask |-> ~indexes.mask[e]])

\* ------------------------------------------------------------- the plan
\* The symbol an instruction binds: the column itself for a bare column.
SymbolOf(goal) == <<goal.kind, goal.col, goal.n>>

ColumnSymbol(col) == <<"id", col, 0>>

NoGoal == Goal("none", "none", 0)

Param(name, extern) ==
    [op |-> "Param", name |-> name, extern |-> extern, goal |-> NoGoal, destination |-> {}]

Assign(name, expr) ==
    [op |-> "Assign", name |-> name, extern |-> "none", goal |-> expr, destination |-> {}]

Export(name, goal) ==
    [op |-> "Export", name |-> name, extern |-> "none", goal |-> goal, destination |-> {}]

Delete(name) ==
    [op |-> "Delete", name |-> name, extern |-> "none", goal |-> NoGoal, destination |-> {}]

GoalRank(goal) == (KindIndex(goal.kind) * (XBins + ZBins + 1)) + goal.n

\* The goals of a set over one column, by kind and bin count.
RECURSIVE GoalsInOrder(_)
GoalsInOrder(goals) ==
    IF goals = {} THEN <<>>
    ELSE LET first == CHOOSE a \in goals : \A b \in goals : GoalRank(a) <= GoalRank(b)
         IN <<first>> \o GoalsInOrder(goals \ {first})

\* The instructions of one goal: an Export of the column itself, or an Assign
\* of the derived value, its Export and the Delete that frees it.
GoalInstructions(goal) ==
    IF goal.kind = "id" THEN <<Export(ColumnSymbol(goal.col), goal)>>
    ELSE <<Assign(SymbolOf(goal), goal), Export(SymbolOf(goal), goal), Delete(SymbolOf(goal))>>

RECURSIVE Flatten(_)
Flatten(ss) == IF ss = <<>> THEN <<>> ELSE Head(ss) \o Flatten(Tail(ss))

\* histbook.stmt.sources: the columns the goals are computed from.
Sources(goals) == {g.col : g \in goals}

\* histbook.stmt.instructions(fields, goals): per source column, in sorted
\* order, the Param that loads it, the instructions of every goal over it, and
\* the Delete that frees it.
Instructions(goals) ==
    Flatten([c \in DOMAIN Columns |->
        LET mine == GoalsInOrder({g \in goals : g.col = Columns[c]})
        IN IF mine = <<>> THEN <<>>
           ELSE <<Param(ColumnSymbol(Columns[c]), Columns[c])>>
                \o Flatten([i \in DOMAIN mine |-> GoalInstructions(mine[i])])
                \o <<Delete(ColumnSymbol(Columns[c]))>>])

\* sorted(x.goal.value for x in fields)
SortedFields(goals) ==
    LET cols == {c \in DOMAIN Columns : Columns[c] \in Sources(goals)}
        rank(c) == Cardinality({h \in cols : h <= c})
    IN [r \in 1..Cardinality(cols) |-> Columns[CHOOSE c \in cols : rank(c) = r]]

\* Hist._streamline(i, instructions): every Export of a goal the histogram
\* looks up gets the pair (i, j) of each slot j that needs it.
HistStreamline(def, i, instructions) ==
    [n \in DOMAIN instructions |->
        IF instructions[n].op = "Export"
        THEN [instructions[n] EXCEPT
                 !.destination = @ \cup {<<i, j>> : j \in Lookup(def, instructions[n].goal)}]
        ELSE instructions[n]]

\* ------------------------------------------------------------- the content store
\* self._content: None, a dense array (one row of statistics per flat bin),
\* or a dict from category to sub-content.
NoContent == [t |-> "none", a |-> <<>>, d |-> <<>>]

Dense(a) == [t |-> "arr", a |-> a, d |-> <<>>]

Dict(d) == [t |-> "dict", a |-> <<>>, d |-> d]

\* numpy.zeros(self._shape, dtype=COUNTTYPE)
Zeros(def) == Dense([r \in 1..Rows(def) |-> [s \in 1..StatWidth(def) |-> 0]])

\* Hist._prefill
Prefill(def, content) ==
    IF content.t = "none"
    THEN (IF Len(def.group) = 0 THEN Zeros(def) ELSE Dict(<<>>))
    ELSE content

\* The outcome of a step that may raise: the value reached and the exception.
Result(v, err) == [v |-> v, err |-> err]

\* v named for the steps F that follow.
With(v, F(_)) == F(v)

\* The steps F on the value of r; when r raised, the exception and what was
\* reached before it.
Try(r, reached, F(_)) == IF r.err # "none" THEN Result(reached, r.err) ELSE F(r.v)

\* a * b of numpy: elementwise, a length-1 operand broadcast to the other.
Multiply(a, b) ==
    IF Len(a) = Len(b) THEN Result([e \in DOMAIN a |-> FMul(a[e], b[e])], "none")
    ELSE IF Len(b) = 1 THEN Result([e \in DOMAIN a |-> FMul(a[e], b[1])], "none")
    ELSE IF Len(a) = 1 THEN Result([e \in DOMAIN b |-> FMul(a[1], b[e])], "none")
    ELSE Result(<<>>, "ValueError")

\* The sum added to row r by numpy.add.at: every entry of values whose index is r.
RECURSIVE AddedTo(_, _, _, _)
AddedTo(start, r, indices, values) ==
    IF indices = <<>> THEN start
    ELSE AddedTo(IF Head(indices) + 1 = r THEN FAdd(start, Head(values)) ELSE start,
                 r, Tail(indices), Tail(values))

\* content[:, column][indices] += values, the buffered addition numpy.add.at
\* is there to avoid: a row named more than once gets its last value only.
AddBuffered(a, column, indices, values) ==
    IF Len(values) # Len(indices) /\ Len(values) # 1 THEN Result(a, "ValueError")
    ELSE LET vals == IF Len(values) = Len(indices) THEN values
                     ELSE [e \in DOMAIN indices |-> values[1]]
             last(r) == CHOOSE e \in DOMAIN indices :
                            /\ indices[e] + 1 = r
                            /\ \A f \in DOMAIN indices : f > e => indices[f] + 1 # r
         IN Result([r \in DOMAIN a |->
                       IF \E e \in DOMAIN indices : indices[e] + 1 = r
                       THEN [a[r] EXCEPT ![column] = FAdd(@, vals[last(r)])]
                       ELSE a[r]], "none")

\* numpy.add.at(content.reshape((-1, width))[:, column], indices, values): an
\* unbuffered scatter-add; values must broadcast to the shape of indices.
AddAt(a, column, indices, values) ==
    IF Len(values) # Len(indices) /\ Len(values) # 1 THEN Result(a, "ValueError")
    ELSE LET vals == IF Len(values) = Len(indices) THEN values
                     ELSE [e \in DOMAIN indices |-> values[1]]
         IN Result([r \in DOMAIN a |->
                       [a[r] EXCEPT ![column] = AddedTo(@, r, indices, vals)]], "none")

\* array[selection] with a boolean selection.
BoolIndex(array, selection) ==
    IF Len(array) # Len(selection) THEN Result(<<>>, "IndexError")
    ELSE Result(Take(array, selection), "none")

\* The weight staging without lines 301 to 306: NaN weights are used as they are.
NanKept(weight, weight2) ==
    [weight |-> weight, weight2 |-> weight2, exported |-> <<weight, weight2>>]

\* Hist._postfill, the weight staging: the weight and its square as the fill
\* uses them (NaN zeroed in copies), and the exported arrays as they are left.
NanZeroed(weight, weight2) ==
    LET selection == [e \in DOMAIN weight |-> weight[e] = NaN]
    IN IF \E e \in DOMAIN selection : selection[e]
       THEN [weight |-> [e \in DOMAIN weight |-> IF selection[e] THEN 0 ELSE weight[e]],
             weight2 |-> [e \in DOMAIN weight2 |->
                             IF e \in DOMAIN selection /\ selection[e] THEN 0 ELSE weight2[e]],
             exported |-> <<weight, weight2>>]
       ELSE [weight |-> weight, weight2 |-> weight2, exported |-> <<weight, weight2>>]

\* numpy.add.at(content[..., column], indexes.compressed(), sumx * weight)
AddProduct(a, column, indexes, sumx, weight) ==
    Try(Multiply(sumx, weight), a, LAMBDA v : AddAt(a, column, Compressed(indexes), v))

\* fillblock, the loop over the profile axes from the p-th on.
RECURSIVE FillProfiles(_, _, _, _, _, _, _)
FillProfiles(def, p, a, indexes, axissumx, axissumx2, weight) ==
    IF p > Len(def.profile) \/ p > Len(axissumx) \/ p > Len(axissumx2) THEN Result(a, "none")
    ELSE Try(AddProduct(a, SumwxIndex(def, p), indexes, axissumx[p], weight), a, LAMBDA a1 :
         Try(AddProduct(a1, Sumwx2Index(def, p), indexes, axissumx2[p], weight), a1, LAMBDA a2 :
         FillProfiles(def, p + 1, a2, indexes, axissumx, axissumx2, weight)))

\* numpy.bitwise_not(numpy.ma.getmask(indexes))
Unmasked(indexes) == [e \in DOMAIN indexes.mask |-> ~indexes.mask[e]]

\* fillblock: the scatter-add of one batch into one dense array.  weight2 is
\* None for an unweighted histogram, whose weight is the scalar 1.
FillBlock(def, a, indexes, axissumx, axissumx2, weight, weight2) ==
    With(FillProfiles(def, 1, a, indexes, axissumx, axissumx2, weight), LAMBDA prof :
    IF prof.err # "none" THEN prof
    ELSE IF weight2.isNone
    THEN AddAt(prof.v, SumwIndex(def), Compressed(indexes), weight)
    ELSE Try(BoolIndex(weight, Unmasked(indexes)), prof.v, LAMBDA w :
         Try(BoolIndex(weight2.val, Unmasked(indexes)), prof.v, LAMBDA w2 :
         Try(AddAt(prof.v, SumwIndex(def), Compressed(indexes), w), prof.v, LAMBDA a1 :
         AddAt(a1, Sumw2Index(def), Compressed(indexes), w2)))))

\* [x[selection] for x in arrays]
SelectAll(arrays, selection) ==
    IF \E i \in DOMAIN arrays : Len(arrays[i]) # Len(selection)
    THEN Result(<<>>, "IndexError")
    ELSE Result([i \in DOMAIN arrays |-> Take(arrays[i], selection)], "none")

\* filldict, the sub-store of a category: the one the dict holds, or a new
\* one (a dense array at the last group level, a dict above it).
WithCategory(def, j, d, unique) ==
    IF unique \in DOMAIN d THEN d
    ELSE [c \in DOMAIN d \cup {unique} |->
             IF c = unique THEN (IF j = Len(def.group) THEN Zeros(def) ELSE Dict(<<>>))
             ELSE d[c]]

\* filldict: selection = (inverse == idx)
Selection(inverse, idx) == [e \in DOMAIN inverse |-> inverse[e] = idx]

\* filldict: the indexes of a category, masked outside its selection.
SubIndexes(indexes, selection) ==
    [data |-> indexes.data,
     mask |-> [e \in DOMAIN indexes.mask |-> ~selection[e] \/ indexes.mask[e]]]

\* filldict: subweight and subweight2, sliced only for a weighted histogram.
SubWeight(weight, weight2, selection) ==
    IF weight2.isNone THEN Result(weight, "none") ELSE BoolIndex(weight, selection)

SubWeight2(weight2, selection) ==
    IF weight2.isNone THEN Result(weight2, "none")
    ELSE With(BoolIndex(weight2.val, selection), LAMBDA s : Result(Some(s.v), s.err))

\* filldict(j, content, ...): at group level j, one sub-store per distinct
\* category of the batch, created when absent, filled with the events of that
\* category; below the last group level, fillblock.  FillUniques is the loop
\* over enumerate(uniques) from position idx on.
RECURSIVE FillDict(_, _, _, _, _, _, _, _, _)
RECURSIVE FillUniques(_, _, _, _, _, _, _, _, _, _)
FillDict(def, dest, j, content, indexes, axissumx, axissumx2, weight, weight2) ==
    IF j = Len(def.group) + 1
    THEN With(FillBlock(def, content.a, indexes, axissumx, axissumx2, weight, weight2),
              LAMBDA r : Result(Dense(r.v), r.err))
    ELSE FillUniques(def, dest, j, 1, content, indexes, axissumx, axissumx2, weight, weight2)

FillUniques(def, dest, j, idx, content, indexes, axissumx, axissumx2, weight, weight2) ==
    IF idx > Len(dest[j].val.uniques) THEN Result(content, "none")
    ELSE
    With(dest[j].val.uniques[idx], LAMBDA unique :
    With(Selection(dest[j].val.inverse, idx), LAMBDA selection :
    With(WithCategory(def, j, content.d, unique), LAMBDA d :
    Try(SelectAll(axissumx, selection), Dict(d), LAMBDA subaxissumx :
    Try(SelectAll(axissumx2, selection), Dict(d), LAMBDA subaxissumx2 :
    Try(SubWeight(weight, weight2, selection), Dict(d), LAMBDA subweight :
    Try(SubWeight2(weight2, selection), Dict(d), LAMBDA subweight2 :
    With(FillDict(def, dest, j + 1, d[unique], SubIndexes(indexes, selection),
                  subaxissumx, subaxissumx2, subweight, subweight2), LAMBDA sub :
    With(Dict([d EXCEPT ![unique] = sub.v]), LAMBDA after :
    IF sub.err # "none" THEN Result(after, sub.err)
    ELSE FillUniques(def, dest, j, idx + 1, after, indexes, axissumx, axissumx2,
                     weight, weight2))))))))))

\* Hist._postfill, the loop over self._fixed: the flat index of every event,
\* index * totbins + axis index from the second fixed axis on, with the masks
\* of the axes combined.
RECURSIVE FlatIndex(_, _, _, _)
FlatIndex(def, dest, step, indexes) ==
    IF step > Len(def.fixed) THEN indexes
    ELSE LET axis == dest[Len(def.group) + step].val
         IN IF step = 1 THEN FlatIndex(def, dest, 2, axis)
            ELSE FlatIndex(def, dest, step + 1,
                    [data |-> [e \in DOMAIN indexes.data |->
                                  indexes.data[e] * def.fixed[step].totbins + axis.data[e]],
                     mask |-> [e \in DOMAIN indexes.mask |-> indexes.mask[e] \/ axis.mask[e]]])

\* The exception _postfill raises when its slots hold None.
NoneSlotError(def) ==
    IF Len(def.fixed) >= 2 THEN "AttributeError"
    ELSE IF def.weight # NoWeight THEN "TypeError"
    ELSE IF Len(def.fixed) = 0 THEN "UnboundLocalError"
    ELSE IF Len(def.group) > 0 THEN "TypeError"
    ELSE "AttributeError"

\* Hist._postfill: axissumx (offset 1) and axissumx2 (offset 2), the two slots
\* of every profile axis.
ProfileSlots(def, dest, offset) ==
    [i \in 1..Len(def.profile) |->
        dest[Len(def.group) + Len(def.fixed) + 2 * (i - 1) + offset].val]

\* Hist._postfill: the slot of the weight, after the slots of the axes.
WeightSlot(def) == Len(def.group) + Len(def.fixed) + 2 * Len(def.profile) + 1

\* Hist._postfill: the weight, its square and the exported weight arrays; an
\* unweighted histogram has the scalar weight 1 and weight2 None.
StagedWeight(def, dest) ==
    IF def.weight = NoWeight THEN [weight |-> <<1>>, weight2 |-> None, exported |-> <<>>]
    ELSE With(NanZeroed(dest[WeightSlot(def)].val, dest[WeightSlot(def) + 1].val), LAMBDA z :
              [weight |-> z.weight, weight2 |-> Some(z.weight2), exported |-> z.exported])

\* Hist._postfill(arrays) on the slots dest of self._destination[0]: the
\* content it leaves, the exception it raises, and the exported weight arrays
\* as it leaves them.  The reset of the slots to None, which ends a _postfill
\* that did not raise, is made by the caller of this operator.
PostFill(def, content, dest) ==
    IF \E j \in DOMAIN dest : dest[j].isNone
    THEN [content |-> content, err |-> NoneSlotError(def), exported |-> <<>>]
    ELSE With(StagedWeight(def, dest), LAMBDA staged :
         IF Len(def.fixed) = 0
         THEN [content |-> content, err |-> "UnboundLocalError", exported |-> staged.exported]
         ELSE With(FillDict(def, dest, 1, content, FlatIndex(def, dest, 1, <<>>),
                            ProfileSlots(def, dest, 1), ProfileSlots(def, dest, 2),
                            staged.weight, staged.weight2), LAMBDA r :
                   [content |-> r.v, err |-> r.err, exported |-> staged.exported]))

\* ------------------------------------------------------------- Fillable
\* Fillable._fill(arrays) over the instructions from the n-th on: symbols is
\* the symbol table, destination the lists self._destination names (by the
\* histogram that built each), slots their contents, exports the exported
\* arrays.  A Param of a column the batch lacks raises KeyError.
RECURSIVE Execute(_, _, _, _, _, _, _)
Execute(instructions, n, arrays, symbols, destination, slots, exports) ==
    IF n > Len(instructions) THEN [slots |-> slots, exports |-> exports, err |-> "none"]
    ELSE LET ins == instructions[n]
             bind(name, v) == [s \in DOMAIN symbols \cup {name} |->
                                  IF s = name THEN v ELSE symbols[s]]
         IN
         CASE ins.op = "Param" ->
                IF ins.extern \notin DOMAIN arrays
                THEN [slots |-> slots, exports |-> exports, err |-> "KeyError"]
                ELSE Execute(instructions, n + 1, arrays, bind(ins.name, arrays[ins.extern]),
                             destination, slots, exports)
           [] ins.op = "Assign" ->
                Execute(instructions, n + 1, arrays,
                        bind(ins.name, Calculate(ins.goal, symbols[ColumnSymbol(ins.goal.col)])),
                        destination, slots, exports)
           [] ins.op = "Export" ->
                LET data == symbols[ins.name]
                    written == [r \in DOMAIN slots |->
                                  [j \in DOMAIN slots[r] |->
                                      IF \E i \in DOMAIN destination :
                                            destination[i] = r /\ <<i, j>> \in ins.destination
                                      THEN Some(data) ELSE slots[r][j]]]
                IN Execute(instructions, n + 1, arrays, symbols, destination, written,
                           [s \in DOMAIN exports \cup {ins.name} |->
                               IF s = ins.name THEN data ELSE exports[s]])
           [] ins.op = "Delete" ->
                Execute(instructions, n + 1, arrays,
                        [s \in DOMAIN symbols \ {ins.name} |-> symbols[s]],
                        destination, slots, exports)

\* Fillable._fill(arrays), once self.fields has made the instructions.
Fill(instructions, arrays, destination, slots) ==
    Execute(instructions, 1, arrays, <<>>, destination, slots, <<>>)

\* ------------------------------------------------------------- objects
\* A Hist object: its axis definitions, the histogram whose __init__ built its
\* _destination list (a copy shares that list), the cell holding its _content,
\* and its _fields and _instructions.
NewHist(def, name) ==
    [def |-> def, root |-> name, cell |-> name, fields |-> None, instructions |-> <<>>]

\* The destination slots Hist.__init__ makes: one None per goal.
NewSlots(def) == [j \in DOMAIN HistGoals(def) |-> None]

\* copy.copy(h): every attribute of the original is shared, _content too.
HistCopyShallow(h, cells, newcell) == [hist |-> h, cells |-> cells]

\* Hist.copy(), into the cell newcell: every attribute of the original is
\* shared but _content, which is copied array by array, dict by dict.
HistCopy(h, cells, newcell) ==
    [hist |-> [h EXCEPT !.cell = newcell],
     cells |-> [cells EXCEPT ![newcell] = cells[h.cell]]]

\* Fillable.fields of a Hist: compiled when _fields is None.
HistCompiled(h) ==
    IF h.fields.isNone
    THEN [h EXCEPT !.fields = Some(SortedFields(Range(HistGoals(h.def)))),
                   !.instructions = HistStreamline(h.def, 1,
                                        Instructions(Range(HistGoals(h.def))))]
    ELSE h

\* Book._goals: the union of the members' goals.
BookGoals(hists) == UNION {Range(HistGoals(hists[i].hist.def)) : i \in DOMAIN hists}

\* Book._streamline(i, instructions): every member streamlines the shared
\* instructions under its own position.
RECURSIVE BookStreamline(_, _, _)
BookStreamline(hists, i, instructions) ==
    IF i > Len(hists) THEN instructions
    ELSE BookStreamline(hists, i + 1, HistStreamline(hists[i].hist.def, i, instructions))

\* Fillable.fields of a Book: compiled when _fields is None, and then
\* _destination lists the members' slot lists.
BookCompiled(b) ==
    IF b.fields.isNone
    THEN [b EXCEPT !.fields = Some(SortedFields(BookGoals(b.hists))),
                   !.instructions = BookStreamline(b.hists, 1, Instructions(BookGoals(b.hists))),
                   !.destination = [i \in DOMAIN b.hists |-> b.hists[i].hist.root]]
    ELSE b

\* self._hists[name] = hist of an OrderedDict: in place for a key it holds,
\* appended otherwise.
SetKey(hists, name, h) ==
    IF \E i \in DOMAIN hists : hists[i].name = name
    THEN [i \in DOMAIN hists |-> IF hists[i].name = name THEN [name |-> name, hist |-> h]
                                 ELSE hists[i]]
    ELSE Append(hists, [name |-> name, hist |-> h])

\* del self._hists[name]
DelKey(hists, name) ==
    LET keep == {i \in DOMAIN hists : hists[i].name # name}
        rank(i) == Cardinality({h \in keep : h <= i})
    IN [r \in 1..Cardinality(keep) |-> hists[CHOOSE i \in keep : rank(i) = r]]

\* Book.__delitem__(name)
BookDelItem(b, name) == [b EXCEPT !.hists = DelKey(b.hists, name)]

\* Book.__setitem__(name, value) for a Hist value: the copy is stored and
\* _fields reset.
BookSetHist(b, cells, name, h) ==
    LET c == HistCopy(h, cells, name)
    IN [book |-> [b EXCEPT !.hists = SetKey(b.hists, name, c.hist), !.fields = None],
        cells |-> c.cells]

\* Book.__setitem__(name, value) for a Book value, from its i-th item on:
\* a copy of each member under name + "/" + its key.
RECURSIVE BookSetBook(_, _, _, _, _)
BookSetBook(b, cells, name, items, i) ==
    IF i > Len(items) THEN [book |-> b, cells |-> cells]
    ELSE LET one == BookSetHist(b, cells, name \o "/" \o items[i].name, items[i].hist)
         IN BookSetBook(one.book, one.cells, name, items, i + 1)

\* The exported arrays after a _postfill: the weight and its square as that
\* _postfill left them.
Reexport(def, exports, left) ==
    IF left = <<>> THEN exports
    ELSE [s \in DOMAIN exports |->
             IF s = ColumnSymbol(def.weight) THEN left[1]
             ELSE IF s = SymbolOf(Goal("sq", def.weight, 0)) THEN left[2]
             ELSE exports[s]]

\* self._destination[0][j] = None for every j
Cleared(slots, root) == [slots EXCEPT ![root] = [j \in DOMAIN @ |-> None]]

\* Hist.fill(arrays): _prefill, _fill, _postfill.  What the call leaves: the
\* histogram, the cells, the slots, the exported arrays, the exception.
HistFillOutcome(h, cells, slots, batch) ==
    With(HistCompiled(h), LAMBDA hc :
    With([cells EXCEPT ![hc.cell] = Prefill(hc.def, @)], LAMBDA pre :
    With(Fill(hc.instructions, batch, <<hc.root>>, slots), LAMBDA ex :
    IF ex.err # "none"
    THEN [hist |-> hc, cells |-> pre, slots |-> ex.slots, exported |-> ex.exports,
          raised |-> ex.err]
    ELSE With(PostFill(hc.def, pre[hc.cell], ex.slots[hc.root]), LAMBDA post :
         [hist |-> hc,
          cells |-> [pre EXCEPT ![hc.cell] = post.content],
          slots |-> IF post.err = "none" THEN Cleared(ex.slots, hc.root) ELSE ex.slots,
          exported |-> Reexport(hc.def, ex.exports, post.exported),
          raised |-> post.err]))))

\* Book.fill, the loop of x._postfill(arrays) from the i-th member on.
RECURSIVE PostFillMembers(_, _, _, _, _)
PostFillMembers(hists, i, cells, slots, exports) ==
    IF i > Len(hists)
    THEN [cells |-> cells, slots |-> slots, exported |-> exports, raised |-> "none"]
    ELSE With(hists[i].hist, LAMBDA h :
         With(PostFill(h.def, cells[h.cell], slots[h.root]), LAMBDA post :
         IF post.err # "none"
         THEN [cells |-> [cells EXCEPT ![h.cell] = post.content], slots |-> slots,
               exported |-> Reexport(h.def, exports, post.exported), raised |-> post.err]
         ELSE PostFillMembers(hists, i + 1, [cells EXCEPT ![h.cell] = post.content],
                              Cleared(slots, h.root),
                              Reexport(h.def, exports, post.exported))))

\* Book.fill, the loop of x._prefill() over the members.
PrefillMembers(hists, cells) ==
    [c \in DOMAIN cells |->
        IF \E i \in DOMAIN hists : hists[i].hist.cell = c
        THEN Prefill((CHOOSE m \in Range(hists) : m.hist.cell = c).hist.def, cells[c])
        ELSE cells[c]]

\* Book.fill with the loop of _postfill in a finally clause: the members are
\* post-filled whether _fill raised or not.
BookFillFinally(b, cells, slots, batch) ==
    IF b.fields.isNone /\ b.hists = <<>>
    THEN [book |-> b, cells |-> cells, slots |-> slots, exported |-> <<>>,
          raised |-> "TypeError"]
    ELSE
    With(BookCompiled(b), LAMBDA bc :
    With(PrefillMembers(b.hists, cells), LAMBDA pre :
    With(Fill(bc.instructions, batch, bc.destination, slots), LAMBDA ex :
    With(PostFillMembers(bc.hists, 1, pre, ex.slots, ex.exports), LAMBDA post :
         [book |-> bc, cells |-> post.cells, slots |-> post.slots,
          exported |-> post.exported,
          raised |-> IF ex.err # "none" THEN ex.err ELSE post.raised]))))

\* Book.fill(arrays): every member's _prefill, one _fill of the shared
\* instructions, every member's _postfill.  A Book of no member raises
\* TypeError when its fields are compiled (reduce of an empty sequence).
BookFillOutcome(b, cells, slots, batch) ==
    IF b.fields.isNone /\ b.hists = <<>>
    THEN [book |-> b, cells |-> cells, slots |-> slots, exported |-> <<>>,
          raised |-> "TypeError"]
    ELSE
    With(BookCompiled(b), LAMBDA bc :
    With(PrefillMembers(b.hists, cells), LAMBDA pre :
    With(Fill(bc.instructions, batch, bc.destination, slots), LAMBDA ex :
    IF ex.err # "none"
    THEN [book |-> bc, cells |-> pre, slots |-> ex.slots, exported |-> ex.exports,
          raised |-> ex.err]
    ELSE With(PostFillMembers(bc.hists, 1, pre, ex.slots, ex.exports), LAMBDA post :
         [book |-> bc, cells |-> post.cells, slots |-> post.slots,
          exported |-> post.exported, raised |-> post.raised]))))

\* ------------------------------------------------------------- programs and batches
\* A program: the two histograms it constructs, the columns its batches
\* carry, the most events one batch holds, and the values each column takes.
Program(h1, h2, cols, len, g, k, w, x, y, z) ==
    [h1 |-> h1, h2 |-> h2, cols |-> cols, len |-> len,
     dom |-> [g |-> g, k |-> k, w |-> w, x |-> x, y |-> y, z |-> z]]


BinX == HistDef(<<>>, <<FixedAxis("x", XBins)>>, <<>>, NoWeight)

BinXWeighted == HistDef(<<>>, <<FixedAxis("x", XBins)>>, <<>>, "w")

BinXProfileY == HistDef(<<>>, <<FixedAxis("x", XBins)>>, <<"y">>, NoWeight)

BinXProfileYWeighted == HistDef(<<>>, <<FixedAxis("x", XBins)>>, <<"y">>, "w")

BinXBinZ == HistDef(<<>>, <<FixedAxis("x", XBins), FixedAxis("z", ZBins)>>, <<>>, NoWeight)

GroupGBinX == HistDef(<<"g">>, <<FixedAxis("x", XBins)>>, <<>>, NoWeight)

GroupGKBinX == HistDef(<<"g", "k">>, <<FixedAxis("x", XBins)>>, <<>>, NoWeight)

GroupGBinXWeighted == HistDef(<<"g">>, <<FixedAxis("x", XBins)>>, <<>>, "w")

GroupGBinXProfileY == HistDef(<<"g">>, <<FixedAxis("x", XBins)>>, <<"y">>, NoWeight)

GroupG == HistDef(<<"g">>, <<>>, <<>>, NoWeight)

\* The programs of one histogram (h2 is constructed and never used).
HistPrograms ==
    <<Program(BinX, BinX, {"x"}, MaxEvents, {"a"}, {"x"}, {1}, {0, 1, OUT}, {1}, {0}),
      Program(BinXWeighted, BinX, {"x", "w"}, MaxEvents, {"a"}, {"x"}, {1, 2, NaN}, {0, OUT}, {1}, {0}),
      Program(BinXProfileY, BinX, {"x", "y"}, MaxEvents, {"a"}, {"x"}, {1}, {0, 1, OUT}, {1, 2}, {0}),
      Program(BinXProfileYWeighted, BinX, {"x", "y", "w"}, MaxEvents,
              {"a"}, {"x"}, {2, NaN}, {0, OUT}, {2}, {0}),
      Program(BinXBinZ, BinX, {"x", "z"}, MaxEvents, {"a"}, {"x"}, {1}, {0, 1}, {1}, {0, ZBins - 1, OUT}),
      Program(GroupGBinX, BinX, {"g", "x"}, MaxEvents, {"a", "b"}, {"x"}, {1}, {0, 1, OUT}, {1}, {0}),
      Program(GroupGKBinX, BinX, {"g", "k", "x"}, MaxEvents, {"a", "b"}, {"x", "y"}, {1}, {0}, {1}, {0}),
      Program(GroupGBinXWeighted, BinX, {"g", "x", "w"}, MaxEvents,
              {"a", "b"}, {"x"}, {1, 2}, {0}, {1}, {0}),
      Program(GroupGBinXProfileY, BinX, {"g", "x", "y"}, MaxEvents,
              {"a", "b"}, {"x"}, {1}, {0, OUT}, {2}, {0}),
      Program(GroupG, BinX, {"g"}, MaxEvents, {"a", "b"}, {"x"}, {1}, {0}, {1}, {0})>>

\* The programs of a Book over two histograms that share the goal over "x",
\* filled one event at a time.
BookPrograms ==
    <<Program(BinX, BinXProfileY, {"x", "y"}, 1, {"a"}, {"x"}, {1}, {0}, {1}, {0})>>

\* The batches of n events over the columns cols.
RECURSIVE Batches(_, _, _)
Batches(cols, n, dom) ==
    IF cols = {} THEN {<<>>}
    ELSE LET c == CHOOSE c \in cols : TRUE
         IN {b @@ (c :> a) : b \in Batches(cols \ {c}, n, dom), a \in [1..n -> dom[c]]}

\* The batches of n events that carry every column.
CompleteBatches(p, n) == Batches(p.cols, n, p.dom)

\* The columns only the second histogram of the program needs.
Optional(p) == Sources(Range(HistGoals(p.h2))) \ Sources(Range(HistGoals(p.h1)))

\* The batches of n events a caller may pass: complete, or lacking a column
\* only the second histogram needs.
AnyBatches(p, n) ==
    CompleteBatches(p, n) \cup UNION {Batches(p.cols \ {c}, n, p.dom) : c \in Optional(p)}

\* The number of events of a batch.
BatchLen(batch) == LET c == CHOOSE c \in DOMAIN batch : TRUE IN Len(batch[c])

\* The events of a batch, each the value of every column.
Events(batch) == [e \in 1..BatchLen(batch) |-> [c \in DOMAIN batch |-> batch[c][e]]]

\* ------------------------------------------------------------- state
VARIABLES
    prog,      \* the program: what was constructed, what its batches carry
    hist,      \* the Hist objects the program holds, "h1" and "h2"
    book,      \* the Book: _hists (in order), _fields, _instructions, _destination
    cells,     \* the _content each cell holds
    slots,     \* the _destination[0] list of each constructed histogram
    arrays,    \* the batch of the last fill call, as it was passed
    exported,  \* the arrays the last fill call exported, as the call left them
    raised,    \* the exception the last call raised, or "none"
    op,        \* the last call
    used,      \* the events passed to fill so far
    calls,     \* the calls made so far
    filled     \* per histogram the program holds, the events of its completed fills

vars == <<prog, hist, book, cells, slots, arrays, exported, raised, op, used, calls, filled>>

HistNames == {"h1", "h2"}

Keys == {"a", "b"}

NestKey == "n"

CellIds == HistNames \cup Keys \cup {NestKey \o "/" \o "a"}

\* Book(): no member, _fields None.
NewBook == [hists |-> <<>>, fields |-> None, instructions |-> <<>>, destination |-> <<>>]

\* The other Book of the program, Book({"a": h2}): __init__ stores the
\* histogram itself.
OtherItems == <<[name |-> "a", hist |-> hist["h2"]]>>

Call(name, arg) == [name |-> name, arg |-> arg]

Constructed(p) ==
    /\ prog = p
    /\ hist = [h \in HistNames |-> NewHist(IF h = "h1" THEN p.h1 ELSE p.h2, h)]
    /\ book = NewBook
    /\ cells = [c \in CellIds |-> NoContent]
    /\ slots = [h \in HistNames |-> NewSlots(IF h = "h1" THEN p.h1 ELSE p.h2)]
    /\ arrays = <<>>
    /\ exported = <<>>
    /\ raised = "none"
    /\ op = Call("init", "")
    /\ used = 0
    /\ calls = 0
    /\ filled = [h \in HistNames |-> <<>>]

Init == \E i \in DOMAIN BookPrograms : Constructed(BookPrograms[i])

InitHist == \E i \in DOMAIN HistPrograms : Constructed(HistPrograms[i])

\* ------------------------------------------------------------- calls
\* h.fill(**batch)
HistFill(h, batch) ==
    /\ calls < MaxCalls
    /\ used + BatchLen(batch) <= MaxEvents
    /\ \E out \in {HistFillOutcome(hist[h], cells, slots, batch)} :
          /\ hist' = [hist EXCEPT ![h] = out.hist]
          /\ cells' = out.cells
          /\ slots' = out.slots
          /\ exported' = out.exported
          /\ raised' = out.raised
          /\ filled' = IF out.raised = "none"
                       THEN [filled EXCEPT ![h] = @ \o Events(batch)]
                       ELSE filled
    /\ arrays' = batch
    /\ op' = Call("Hist.fill", h)
    /\ used' = used + BatchLen(batch)
    /\ calls' = calls + 1
    /\ UNCHANGED <<prog, book>>

\* book.fill(**batch)
BookFill(batch) ==
    /\ calls < MaxCalls
    /\ used + BatchLen(batch) <= MaxEvents
    /\ \E out \in {BookFillOutcome(book, cells, slots, batch)} :
          /\ book' = out.book
          /\ cells' = out.cells
          /\ slots' = out.slots
          /\ exported' = out.exported
          /\ raised' = out.raised
    /\ arrays' = batch
    /\ op' = Call("Book.fill", "")
    /\ used' = used + BatchLen(batch)
    /\ calls' = calls + 1
    /\ UNCHANGED <<prog, hist, filled>>

\* book.fields
BookFields ==
    /\ calls < MaxCalls
    /\ IF book.fields.isNone /\ book.hists = <<>>
       THEN raised' = "TypeError" /\ book' = book
       ELSE raised' = "none" /\ book' = BookCompiled(book)
    /\ arrays' = <<>>
    /\ exported' = <<>>
    /\ op' = Call("Book.fields", "")
    /\ calls' = calls + 1
    /\ UNCHANGED <<prog, hist, cells, slots, used, filled>>

\* book[name] = h
SetItemHist(name, h) ==
    /\ calls < MaxCalls
    /\ LET out == BookSetHist(book, cells, name, hist[h])
       IN book' = out.book /\ cells' = out.cells
    /\ arrays' = <<>>
    /\ exported' = <<>>
    /\ raised' = "none"
    /\ op' = Call("Book.__setitem__", name)
    /\ calls' = calls + 1
    /\ UNCHANGED <<prog, hist, slots, used, filled>>

\* book["n"] = other
SetItemBook ==
    /\ calls < MaxCalls
    /\ LET out == BookSetBook(book, cells, NestKey, OtherItems, 1)
       IN book' = out.book /\ cells' = out.cells
    /\ arrays' = <<>>
    /\ exported' = <<>>
    /\ raised' = "none"
    /\ op' = Call("Book.__setitem__", NestKey)
    /\ calls' = calls + 1
    /\ UNCHANGED <<prog, hist, slots, used, filled>>

\* del book[name], for a key the Book holds
DelItem(name) ==
    /\ calls < MaxCalls
    /\ \E i \in DOMAIN book.hists : book.hists[i].name = name
    /\ book' = BookDelItem(book, name)
    /\ arrays' = <<>>
    /\ exported' = <<>>
    /\ raised' = "none"
    /\ op' = Call("Book.__delitem__", name)
    /\ calls' = calls + 1
    /\ UNCHANGED <<prog, hist, cells, slots, used, filled>>

FillHist == \E h \in HistNames, n \in 1..Min2(prog.len, MaxEvents - used) : \E b \in AnyBatches(prog, n) : HistFill(h, b)

FillBook == \E n \in 1..Min2(prog.len, MaxEvents - used) : \E b \in AnyBatches(prog, n) : BookFill(b)

AssignHist == \E name \in Keys, h \in HistNames : SetItemHist(name, h)

Remove == \E name \in CellIds : DelItem(name)

Next == FillHist \/ FillBook \/ BookFields \/ AssignHist \/ SetItemBook \/ Remove

Spec == Init /\ [][Next]_vars

\* One histogram filled with complete batches.
NextHist == \E n \in 1..Min2(prog.len, MaxEvents - used) : \E b \in CompleteBatches(prog, n) : HistFill("h1", b)

SpecHist == InitHist /\ [][NextHist]_vars

\* ------------------------------------------------------------- what a fill should add
\* The event is out of the range of a fixed axis of the histogram.
Masked(def, e) ==
    \E i \in DOMAIN def.fixed : e[def.fixed[i].col] \notin 0..(def.fixed[i].totbins - 1)

\* The flat row ((b1 * n2 + b2) * n3 + ...) + bk of an unmasked event over
\* the first k fixed axes.
RECURSIVE RowOf(_, _, _)
RowOf(def, e, k) ==
    IF k = 0 THEN 0
    ELSE RowOf(def, e, k - 1) * def.fixed[k].totbins + e[def.fixed[k].col]

\* The weight an event counts with: 1 when unweighted, 0 for a NaN weight.
WeightOf(def, e) ==
    IF def.weight = NoWeight THEN 1
    ELSE IF e[def.weight] = NaN THEN 0 ELSE e[def.weight]

\* What one event adds to statistics column s of its bin.
StatOf(def, e, s) ==
    LET w == WeightOf(def, e)
    IN IF s = SumwIndex(def) THEN w
       ELSE IF s = Sumw2Index(def) THEN w * w
       ELSE LET y == e[def.profile[(s + 1) \div 2]]
            IN IF s % 2 = 1 THEN y * w ELSE y * y * w

RECURSIVE Total(_)
Total(s) == IF s = <<>> THEN 0 ELSE Head(s) + Total(Tail(s))

\* What the events add to column s of row r: the unmasked events of that row.
ExpectedAt(def, events, r, s) ==
    Total([i \in DOMAIN events |->
              IF ~Masked(def, events[i]) /\ RowOf(def, events[i], Len(def.fixed)) + 1 = r
              THEN StatOf(def, events[i], s) ELSE 0])

\* The dense array a histogram of these axes holds once it has accumulated the events.
Expected(def, events) ==
    [r \in 1..Rows(def) |-> [s \in 1..StatWidth(def) |-> ExpectedAt(def, events, r, s)]]

\* The category path of an event.
PathOf(def, e) == [i \in 1..Len(def.group) |-> e[def.group[i]]]

\* The sub-store at a category path, NoContent when there is none.
RECURSIVE Leaf(_, _)
Leaf(content, path) ==
    IF path = <<>> THEN content
    ELSE IF content.t = "dict" /\ Head(path) \in DOMAIN content.d
    THEN Leaf(content.d[Head(path)], Tail(path))
    ELSE NoContent

\* The dense array at a category path, zeros when there is none.
LeafArray(def, content, path) ==
    IF Leaf(content, path).t = "arr" THEN Leaf(content, path).a ELSE Zeros(def).a

\* The category paths that end in a dense array.
RECURSIVE Paths(_)
Paths(content) ==
    IF content.t = "arr" THEN {<<>>}
    ELSE IF content.t = "dict"
    THEN UNION {{<<c>> \o p : p \in Paths(content.d[c])} : c \in DOMAIN content.d}
    ELSE {}

\* The accumulators of a content store: every dense array by its category path.
Accumulators(def, content) ==
    [path \in {p \in Paths(content) : Leaf(content, p).a # Zeros(def).a} |->
        Leaf(content, path).a]

\* The batch without the events the histogram masks.
Unmasking(def, batch) ==
    [c \in DOMAIN batch |->
        Take(batch[c], [e \in DOMAIN batch[c] |-> ~Masked(def, Events(batch)[e])])]

\* The events of a category path.
EventsOn(def, events, path) ==
    Take(events, [i \in DOMAIN events |-> PathOf(def, events[i]) = path])

\* The sum of two dense arrays.
Plus(a, b) == [r \in DOMAIN a |-> [s \in DOMAIN a[r] |-> FAdd(a[r][s], b[r][s])]]

\* The batch with weight 0 in place of every NaN weight.
ZeroWeighted(def, batch) ==
    [batch EXCEPT ![def.weight] = [e \in DOMAIN @ |-> IF @[e] = NaN THEN 0 ELSE @[e]]]

\* Some event of the batch is masked by the histogram.
SomeMasked(def, batch) == \E e \in DOMAIN Events(batch) : Masked(def, Events(batch)[e])

\* ------------------------------------------------------------- one histogram
\* C8: a histogram of fixed axes and no group axis holds, in the count slot of
\* the flat row ((b1 * n2 + b2) * n3 + ...) + bk, the number of unmasked events
\* of its completed fills whose bin indices are (b1, ..., bk); when weighted,
\* the sum of their weights there and the sum of their squared weights in the
\* next slot.  N events of one batch in one bin raise its count by N.
C8_CountPerBin ==
    \A h \in HistNames :
        (Len(hist[h].def.group) = 0 /\ cells[h].t = "arr") =>
            \A r \in 1..Rows(hist[h].def) :
                /\ cells[h].a[r][SumwIndex(hist[h].def)]
                      = ExpectedAt(hist[h].def, filled[h], r, SumwIndex(hist[h].def))
                /\ hist[h].def.weight # NoWeight =>
                      cells[h].a[r][Sumw2Index(hist[h].def)]
                         = ExpectedAt(hist[h].def, filled[h], r, Sumw2Index(hist[h].def))

\* A batch of two or more events, all in the last bin of both fixed axes, has
\* been filled: the count of flat row 1 * ZBins + (ZBins - 1) is at least 2.
C8_SeveralInOneBin ==
    /\ prog.h1 = BinXBinZ
    /\ op = Call("Hist.fill", "h1")
    /\ raised = "none"
    /\ BatchLen(arrays) >= 2
    /\ \A e \in 1..BatchLen(arrays) : arrays["x"][e] = 1 /\ arrays["z"][e] = ZBins - 1
    /\ cells["h1"].a[1 * ZBins + (ZBins - 1) + 1][SumwIndex(BinXBinZ)] >= 2

\* C6: a fill of a weighted histogram leaves what the same fill would leave
\* with weight 0 in place of every NaN weight (nothing added for the NaN
\* events, every other event as it is), and the exported weight and squared
\* weight arrays are the ones computed from the batch, NaN included.
C6_NanWeightAsZero ==
    [][(/\ op'.name = "Hist.fill"
        /\ hist[op'.arg].def.weight # NoWeight
        /\ hist[op'.arg].def.weight \in DOMAIN arrays')
       => LET h == op'.arg
              def == hist[h].def
              out == HistFillOutcome(hist[h], cells, slots, ZeroWeighted(def, arrays'))
          IN /\ cells' = out.cells
             /\ raised' = out.raised
             /\ exported'[ColumnSymbol(def.weight)] = arrays'[def.weight]
             /\ exported'[SymbolOf(Goal("sq", def.weight, 0))]
                   = [e \in DOMAIN arrays'[def.weight] |->
                         FMul(arrays'[def.weight][e], arrays'[def.weight][e])]]_vars

\* A weighted fill has returned whose batch held an unmasked event of NaN
\* weight and an unmasked event of another weight.
C6_NanAmongWeights ==
    /\ op = Call("Hist.fill", "h1")
    /\ raised = "none"
    /\ hist["h1"].def.weight # NoWeight
    /\ \E e, f \in 1..BatchLen(arrays) :
          /\ arrays[hist["h1"].def.weight][e] = NaN
          /\ arrays[hist["h1"].def.weight][f] # NaN
          /\ ~Masked(hist["h1"].def, Events(arrays)[e])
          /\ ~Masked(hist["h1"].def, Events(arrays)[f])
    /\ cells["h1"] # Zeros(hist["h1"].def)

\* C7: a fill whose batch holds masked events succeeds, and leaves in every
\* accumulator (count or sum of weights, sum of squared weights, profile sums,
\* in every bin and group leaf) what the fill of the batch without the masked
\* events leaves.
C7_MaskedEventsAbsent ==
    [][(op'.name = "Hist.fill" /\ SomeMasked(hist[op'.arg].def, arrays'))
       => LET h == op'.arg
              def == hist[h].def
              out == HistFillOutcome(hist[h], cells, slots, Unmasking(def, arrays'))
          IN /\ raised' = "none"
             /\ Accumulators(def, cells'[h]) = Accumulators(def, out.cells[h])]_vars

\* C2: a fill of a histogram with group axes succeeds, and adds to the leaf of
\* every category path exactly what the events of that path add to a
\* histogram of the same fixed and profile axes and weight without group axes.
C2_LeafPerCategory ==
    [][(op'.name = "Hist.fill" /\ Len(hist[op'.arg].def.group) >= 1)
       => LET h == op'.arg
              def == hist[h].def
              events == Events(arrays')
          IN /\ raised' = "none"
             /\ \A path \in {PathOf(def, e) : e \in Range(events)} \cup Paths(cells'[h]) :
                   LeafArray(def, cells'[h], path)
                      = Plus(LeafArray(def, cells[h], path),
                             Expected(def, EventsOn(def, events, path)))]_vars

\* C3: a fill of a histogram with group axes that returns leaves exactly the
\* leaf paths there were and the category tuples of its events.
C3_LeavesAreEncountered ==
    [][(/\ op'.name = "Hist.fill"
        /\ raised' = "none"
        /\ Len(hist[op'.arg].def.group) >= 1)
       => Paths(cells'[op'.arg])
             = Paths(cells[op'.arg])
               \cup {PathOf(hist[op'.arg].def, e) : e \in Range(Events(arrays'))}]_vars

\* ------------------------------------------------------------- the Book
\* What a histogram of these axes holds after Hist.fill of the batch on its
\* own, from the content given.
Solo(def, content, batch) ==
    HistFillOutcome(NewHist(def, "h1"), [c \in {"h1"} |-> content],
                    [r \in {"h1"} |-> NewSlots(def)], batch).cells["h1"]

\* C1: Book.fill of a Book of two or more members, on a batch of every column,
\* succeeds and leaves in each member what Hist.fill of the same batch leaves
\* in a histogram of the member's axes filled on its own from the member's
\* prior content.
C1_MembersAsFilledAlone ==
    [][(op'.name = "Book.fill" /\ Len(book.hists) >= 2 /\ prog.cols \subseteq DOMAIN arrays')
       => /\ raised' = "none"
          /\ \A i \in DOMAIN book.hists :
                cells'[book.hists[i].hist.cell]
                   = Solo(book.hists[i].hist.def, cells[book.hists[i].hist.cell], arrays')]_vars

\* C4: the plan a Book has cached is the one compiled from the goals of the
\* histograms that are its members now: its column list, its instruction
\* sequence.
C4_PlanOfCurrentMembers ==
    (~book.fields.isNone /\ book.hists # <<>>) =>
        /\ book.fields.val = SortedFields(BookGoals(book.hists))
        /\ book.instructions
              = BookStreamline(book.hists, 1, Instructions(BookGoals(book.hists)))

\* C10: a fill call that returns has released its staging: every destination
\* slot that was None when it was called is None when it has returned, in
\* every histogram constructed (the originals, whose slot lists the members
\* and the deleted members share).
C10_StagingReleased ==
    [][(op'.name \in {"Hist.fill", "Book.fill"} /\ raised' = "none")
       => \A r \in HistNames : \A j \in DOMAIN slots[r] :
              slots[r][j].isNone => slots'[r][j].isNone]_vars

\* The members a Book assignment under the key stores: the key itself for a
\* Hist, the key, "/" and the other Book's key for each member of a Book.
StoredUnder(b, key) ==
    {m \in Range(b.hists) :
        \/ m.name = key
        \/ \E i \in DOMAIN OtherItems : m.name = key \o "/" \o OtherItems[i].name}

\* C5: Hist.fill of an original leaves the content of every Book member as it
\* was, Book.fill leaves the content of every original as it was, and an
\* assignment into the Book leaves the originals as they were and gives every
\* member it stores the content of the original it was copied from.
C5_AssignStoresDeepCopy ==
    [][/\ op'.name = "Hist.fill" =>
             \A i \in DOMAIN book.hists :
                 cells'[book.hists[i].hist.cell] = cells[book.hists[i].hist.cell]
       /\ op'.name = "Book.fill" =>
             \A h \in HistNames : cells'[hist[h].cell] = cells[hist[h].cell]
       /\ op'.name = "Book.__setitem__" =>
             /\ \A h \in HistNames : cells'[hist[h].cell] = cells[hist[h].cell]
             /\ \A m \in StoredUnder(book', op'.arg) :
                   \E h \in HistNames :
                       /\ m.hist.def = hist[h].def
                       /\ cells'[m.hist.cell] = cells[hist[h].cell]]_vars

\* An original has been filled after its copy was stored in the Book, and a
\* Book member filled by Book.fill: the member and the original it was copied
\* from now hold different accumulated contents.
C5_CopyAndOriginalDiverge ==
    /\ op.name \in {"Hist.fill", "Book.fill"}
    /\ raised = "none"
    /\ \E i \in DOMAIN book.hists :
          /\ cells[book.hists[i].hist.cell].t = "arr"
          /\ cells[book.hists[i].hist.root].t = "arr"
          /\ cells[book.hists[i].hist.cell] # Zeros(book.hists[i].hist.def)
          /\ cells[book.hists[i].hist.root] # Zeros(book.hists[i].hist.def)
          /\ cells[book.hists[i].hist.cell] # cells[book.hists[i].hist.root]

\* The plan has a Param of a column the batch lacks.
Lacks(instructions, batch) ==
    \E n \in DOMAIN instructions :
        instructions[n].op = "Param" /\ instructions[n].extern \notin DOMAIN batch

\* The content holds the numbers it held: it is unchanged, or was None and is
\* now the empty store _prefill makes.
SameNumbers(before, after) ==
    \/ after = before
    \/ /\ before.t = "none"
       /\ \/ after.t = "dict" /\ after.d = <<>>
          \/ after.t = "arr" /\ \A r \in DOMAIN after.a : \A s \in DOMAIN after.a[r] : after.a[r][s] = 0

\* Every destination slot None.
NoneSlots == [r \in DOMAIN slots |-> [j \in DOMAIN slots[r] |-> None]]

\* C9: a fill call whose batch lacks a column a Param of the plan names raises
\* KeyError; a fill call that raises KeyError leaves every number of every
\* content store as it was; and every fill call leaves in the content stores
\* what it leaves when no earlier call has staged anything in the slots.
C9_MissingColumnAddsNothing ==
    [][/\ op'.name = "Hist.fill" =>
             /\ Lacks(hist'[op'.arg].instructions, arrays') => raised' = "KeyError"
             /\ cells' = HistFillOutcome(hist[op'.arg], cells, NoneSlots, arrays').cells
       /\ op'.name = "Book.fill" =>
             /\ (~book'.fields.isNone /\ Lacks(book'.instructions, arrays'))
                    => raised' = "KeyError"
             /\ cells' = BookFillOutcome(book, cells, NoneSlots, arrays').cells
       /\ (op'.name \in {"Hist.fill", "Book.fill"} /\ raised' = "KeyError") =>
             \A c \in DOMAIN cells : SameNumbers(cells[c], cells'[c])]_vars

\* A Book.fill has raised KeyError after it staged an exported array in a
\* slot, in a Book one of whose members has accumulated events.
C9_FailedAfterStaging ==
    /\ op.name = "Book.fill"
    /\ raised = "KeyError"
    /\ \E r \in HistNames : \E j \in DOMAIN slots[r] : ~slots[r][j].isNone
    /\ \E i \in DOMAIN book.hists :
          /\ cells[book.hists[i].hist.cell].t = "arr"
          /\ cells[book.hists[i].hist.cell] # Zeros(book.hists[i].hist.def)

====
